---- MODULE Spec2Model ----
(***************************************************************************)
(* State-machine model of streamlit_app.py: one run of the Streamlit       *)
(* script from the tabs (line 82) to the end of the analysis section       *)
(* (line 216).  The widget values are the state the run starts from; the   *)
(* script's blocks are the actions; the calls into BERTopic are            *)
(* nondeterministic in whether they raise and in the size of the topic     *)
(* summary they return.                                                    *)
(*                                                                         *)
(* Text is a sequence of one-character strings.  Python's None is the      *)
(* record NoneDocs / NoFile, because TLC cannot compare a string with a    *)
(* sequence.  Static output before line 82 (title, sidebar labels) and     *)
(* the tabs' fixed captions are left out of `out`.                         *)
(***************************************************************************)
EXTENDS Integers, Sequences, FiniteSets, TLC

\* ------------------------------------------------------------------ bounds
MaxLen == 3          \* longest manual text, in characters (input family)
MaxCsvRows == 2      \* most rows of an uploaded table (input family)
MaxDocs == 18        \* most documents of a long input (fit family)
MaxTopicRows == 21   \* most rows of the topic summary table

\* ------------------------------------------------------- widget constants
NNeighborsMin == 2
NNeighborsMaxLimit == 15
NNeighborsDefault == 5
TopNMin == 5
TopNMax == 20
TopNDefault == 10

\* ------------------------------------------------------------------ helpers
Min2(a, b) == IF a <= b THEN a ELSE b
Max2(a, b) == IF a >= b THEN a ELSE b

SeqsUpTo(S, n) == UNION {[1..k -> S] : k \in 0..n}

\* the characters str.strip() removes that the alphabets below contain
Whitespace == {" ", "\n", "\t", "\r"}

\* ---------------------------------------------------- str.split / str.strip
RECURSIVE split(_, _)
split(s, sep) ==
    IF s = <<>> THEN << <<>> >>
    ELSE LET rest == split(Tail(s), sep)
         IN  IF Head(s) = sep
             THEN << <<>> >> \o rest
             ELSE << <<Head(s)>> \o Head(rest) >> \o Tail(rest)

RECURSIVE lstrip(_)
lstrip(s) == IF s # <<>> /\ Head(s) \in Whitespace THEN lstrip(Tail(s)) ELSE s

RECURSIVE rstrip(_)
rstrip(s) ==
    IF s # <<>> /\ s[Len(s)] \in Whitespace
    THEN rstrip(SubSeq(s, 1, Len(s) - 1))
    ELSE s

\* mutant: only the left side is trimmed
strip_left_only(s) == lstrip(s)

strip(s) == rstrip(lstrip(s))

\* [doc.strip() for doc in documents if doc.strip()]
RECURSIVE strip_nonempty(_)
strip_nonempty(docs) ==
    IF docs = <<>> THEN <<>>
    ELSE (IF strip(Head(docs)) # <<>> THEN <<strip(Head(docs))>> ELSE <<>>)
         \o strip_nonempty(Tail(docs))

\* lines 94-95
manual_documents(text) == strip_nonempty(split(text, "\n"))

\* ------------------------------------------------------------ pandas column
\* A cell of a parsed column: missing (NaN), a string, an int64 or a float64
\* with an integral value.  One column holds one dtype: object (NaN, str),
\* int64 (int only) or float64 (NaN, float).
NaN == [kind |-> "nan", text |-> <<>>, num |-> 0]
StrCell(t) == [kind |-> "str", text |-> t, num |-> 0]
IntCell(n) == [kind |-> "int", text |-> <<>>, num |-> n]
FloatCell(n) == [kind |-> "float", text |-> <<>>, num |-> n]

Digit(d) == CASE d = 0 -> "0" [] d = 1 -> "1" [] d = 2 -> "2" [] d = 3 -> "3"
              [] d = 4 -> "4" [] d = 5 -> "5" [] d = 6 -> "6" [] d = 7 -> "7"
              [] d = 8 -> "8" [] d = 9 -> "9"

RECURSIVE Digits(_)
Digits(n) == IF n < 10 THEN <<Digit(n)>> ELSE Digits(n \div 10) \o <<Digit(n % 10)>>

\* mutant: missing rows are kept
dropna_keeps_all(col) == col

\* Series.dropna()
RECURSIVE dropna(_)
dropna(col) ==
    IF col = <<>> THEN <<>>
    ELSE (IF Head(col).kind = "nan" THEN <<>> ELSE <<Head(col)>>) \o dropna(Tail(col))

\* str(value), as Series.astype(str) applies it to each cell
astype_str_cell(c) ==
    CASE c.kind = "str" -> c.text
      [] c.kind = "int" -> Digits(c.num)
      [] c.kind = "float" -> Digits(c.num) \o <<".", "0">>
      [] c.kind = "nan" -> <<"n", "a", "n">>

astype_str(col) == [i \in DOMAIN col |-> astype_str_cell(col[i])]

\* df[column_name]
column_of(df, name) == IF name = "text" THEN df.text ELSE df.other

\* lines 118-119
csv_documents(df, name) == strip_nonempty(astype_str(dropna(column_of(df, name))))

\* ------------------------------------------------------------------- None
NoneDocs == [none |-> TRUE, items |-> <<>>]
ListOf(items) == [none |-> FALSE, items |-> items]
NoFile == [none |-> TRUE, text |-> <<>>, other |-> <<>>]
FileOf(text, other) == [none |-> FALSE, text |-> text, other |-> other]

\* mutant: `if documents is not None:`
truthy_not_none(d) == ~d.none

\* `if documents:` - None and the empty list are both false
truthy(d) == ~d.none /\ d.items # <<>>

\* mutant: the lower bound is left out
n_neighbors_no_floor(nmax, ndocs) == Min2(nmax, ndocs - 2)

\* mutant: the upper bound is one too large
n_neighbors_off_by_one(nmax, ndocs) == Max2(2, Min2(nmax, ndocs - 1))

\* mutant: the slider value is ignored
n_neighbors_ignores_slider(nmax, ndocs) == Max2(2, ndocs - 2)

\* line 136
n_neighbors_of(nmax, ndocs) == Max2(2, Min2(nmax, ndocs - 2))

\* mutant: the configured value is passed as it is
barchart_limit_unclamped(top_n, n_rows) == top_n

\* lines 174 and 206
barchart_limit(top_n, n_rows) == Min2(top_n, n_rows - 1)

VARIABLES
    user_input,       \* st.text_area value
    uploaded_file,    \* the parsed upload (df), or NoFile
    column_name,      \* st.selectbox value over df.columns
    active_tab,       \* the tab shown in the browser; st.tabs returns no selection
    n_neighbors_max,  \* sidebar slider
    top_n_topics,     \* sidebar slider
    show_all_viz,     \* sidebar checkbox
    documents,        \* script variable, NoneDocs or a list
    source,           \* script variable: "None", "manual", "csv"
    analyze_button,   \* st.button's return value
    n_neighbors,      \* UMAP(n_neighbors=...), 0 before it is built
    n_rows,           \* len(topic_info), 0 before get_topic_info()
    fit_raised,       \* the except clause of line 157 was entered
    raised,           \* the charts whose except clause was entered
    calls,            \* the BERTopic calls made, in order
    out,              \* the elements rendered, in order
    pc                \* position in the script

vars == <<user_input, uploaded_file, column_name, active_tab, n_neighbors_max,
          top_n_topics, show_all_viz, documents, source, analyze_button,
          n_neighbors, n_rows, fit_raised, raised, calls, out, pc>>

widgets == <<user_input, uploaded_file, column_name, active_tab, n_neighbors_max,
             top_n_topics, show_all_viz>>

El(kind, what) == [kind |-> kind, what |-> what]
Call(fn, arg, docs) == [fn |-> fn, arg |-> arg, docs |-> docs]

\* ------------------------------------------------------------ input sets
TextAlphabet == {"a", "b", " ", "\n"}
Texts == SeqsUpTo(TextAlphabet, MaxLen)

ObjectCells == {NaN, StrCell(<<"a">>), StrCell(<<" ">>), StrCell(<<" ", "b", " ">>)}
IntCells == {IntCell(12)}
FloatCells == {NaN, FloatCell(3)}
Columns == SeqsUpTo(ObjectCells, MaxCsvRows) \cup SeqsUpTo(IntCells, MaxCsvRows)
             \cup SeqsUpTo(FloatCells, MaxCsvRows)
OtherColumn(n) == [i \in 1..n |-> StrCell(<<"z">>)]
Files == {FileOf(c, OtherColumn(Len(c))) : c \in Columns}

\* n documents "a", one per line
RECURSIVE LongText(_)
LongText(n) ==
    IF n = 0 THEN <<>>
    ELSE IF n = 1 THEN <<"a">>
    ELSE LongText(n - 1) \o <<"\n", "a">>

LongTexts == {LongText(n) : n \in 0..MaxDocs} \cup {<<" ">>}

ScriptStart ==
    /\ documents = NoneDocs
    /\ source = "None"
    /\ analyze_button = FALSE
    /\ n_neighbors = 0
    /\ n_rows = 0
    /\ fit_raised = FALSE
    /\ raised = {}
    /\ calls = <<>>
    /\ out = <<>>
    /\ pc = "tab1"

\* texts and tables vary, the sidebar is at its defaults
InitInput ==
    /\ user_input \in Texts
    /\ \/ uploaded_file = NoFile /\ column_name = "None"
       \/ uploaded_file \in Files /\ column_name \in {"text", "other"}
    /\ active_tab \in {"manual", "csv"}
    /\ n_neighbors_max = NNeighborsDefault
    /\ top_n_topics = TopNDefault
    /\ show_all_viz = TRUE
    /\ ScriptStart

\* document count and the neighbour slider vary
InitFit ==
    /\ user_input \in LongTexts
    /\ uploaded_file = NoFile /\ column_name = "None"
    /\ active_tab = "manual"
    /\ n_neighbors_max \in NNeighborsMin..NNeighborsMaxLimit
    /\ top_n_topics = TopNDefault
    /\ show_all_viz = TRUE
    /\ ScriptStart

\* an upload whose "text" column holds no valid document
BlankFile == FileOf(<<NaN, StrCell(<<" ">>)>>, OtherColumn(2))

\* document count and the visualization controls vary
Init ==
    /\ user_input \in LongTexts
    /\ \/ uploaded_file = NoFile /\ column_name = "None"
       \/ uploaded_file = BlankFile /\ column_name \in {"text", "other"}
    /\ active_tab = "manual"
    /\ n_neighbors_max = NNeighborsDefault
    /\ top_n_topics \in TopNMin..TopNMax
    /\ show_all_viz \in BOOLEAN
    /\ ScriptStart

\* ---------------------------------------------------------------- actions
\* lines 88-96
Tab1Block ==
    /\ pc = "tab1"
    /\ IF user_input # <<>>
       THEN /\ documents' = ListOf(manual_documents(user_input))
            /\ source' = "manual"
       ELSE UNCHANGED <<documents, source>>
    /\ pc' = "tab2"
    /\ UNCHANGED <<widgets, analyze_button, n_neighbors, n_rows, fit_raised,
                   raised, calls, out>>

\* lines 99-121
Tab2Block ==
    /\ pc = "tab2"
    /\ IF ~uploaded_file.none
       THEN IF column_name # "None"
            THEN LET docs == csv_documents(uploaded_file, column_name)
                 IN  /\ documents' = ListOf(docs)
                     /\ source' = "csv"
                     /\ out' = out \o <<El("dataframe", "df.head"),
                                        El("success", "loaded")>>
            ELSE /\ out' = out \o <<El("dataframe", "df.head")>>
                 /\ UNCHANGED <<documents, source>>
       ELSE UNCHANGED <<documents, source, out>>
    /\ pc' = "analysis"
    /\ UNCHANGED <<widgets, analyze_button, n_neighbors, n_rows, fit_raised,
                   raised, calls>>

\* lines 124-130: the button is offered; its value is the user's click
OfferAnalyze ==
    /\ pc = "analysis"
    /\ truthy(documents)
    /\ \E clicked \in BOOLEAN :
         /\ analyze_button' = clicked
         /\ pc' = IF clicked THEN "configure" ELSE "done"
    /\ out' = out \o <<El("markdown", "---"), El("button", "Start Analysis")>>
    /\ UNCHANGED <<widgets, documents, source, n_neighbors, n_rows, fit_raised,
                   raised, calls>>

\* lines 212-216
PromptForInput ==
    /\ pc = "analysis"
    /\ ~truthy(documents)
    /\ out' = out \o (IF source = "None"
                      THEN <<El("info", "get started")>>
                      ELSE <<El("warning", "no valid document")>>)
    /\ pc' = "done"
    /\ UNCHANGED <<widgets, documents, source, analyze_button, n_neighbors,
                   n_rows, fit_raised, raised, calls>>

\* lines 131-150
ConfigureModel ==
    /\ pc = "configure"
    /\ n_neighbors' = n_neighbors_of(n_neighbors_max, Len(documents.items))
    /\ out' = out \o <<El("header", "Step 1"), El("write", "initializing")>>
    /\ pc' = "fit"
    /\ UNCHANGED <<widgets, documents, source, analyze_button, n_rows,
                   fit_raised, raised, calls>>

\* mutant: st.stop() is missing, the script runs on
after_fit_error_runs_on == "topics"

\* where the script goes after the except clause of lines 157-159 (st.stop())
after_fit_error == "stopped"

\* lines 153-159
FitTransform ==
    /\ pc = "fit"
    /\ calls' = calls \o <<Call("fit_transform", n_neighbors, documents.items)>>
    /\ \E raises \in BOOLEAN :
         IF raises
         THEN /\ fit_raised' = TRUE
              /\ out' = out \o <<El("header", "Step 2"), El("write", "fitting"),
                                 El("error", "fitting model")>>
              /\ pc' = after_fit_error
         ELSE /\ out' = out \o <<El("header", "Step 2"), El("write", "fitting")>>
              /\ pc' = "topics"
              /\ UNCHANGED fit_raised
    /\ UNCHANGED <<widgets, documents, source, analyze_button, n_neighbors,
                   n_rows, raised>>

\* lines 162-170: get_topic_info() returns a table of some number of rows
DisplayTopics ==
    /\ pc = "topics"
    /\ \E rows \in 1..MaxTopicRows : n_rows' = rows
    /\ calls' = calls \o <<Call("get_topic_info", 0, <<>>)>>
    /\ out' = out \o <<El("header", "Step 3"), El("write", "topics extracted"),
                       El("dataframe", "topic_info"), El("header", "Step 4")>>
    /\ pc' = IF show_all_viz THEN "barchart" ELSE "barchart_only"
    /\ UNCHANGED <<widgets, documents, source, analyze_button, n_neighbors,
                   fit_raised, raised>>

\* mutant: every except clause carries the first block's message
chart_warning_pasted(chart) == "Could not generate topic frequency chart"

\* the text of the st.warning in each chart's except clause (lines 177, 185,
\* 193, 201, 209)
chart_warning(chart) ==
    CASE chart = "barchart" -> "Could not generate topic frequency chart"
      [] chart = "hierarchy" -> "Could not generate hierarchy chart"
      [] chart = "heatmap" -> "Could not generate heatmap"
      [] chart = "topics" -> "Could not generate topic words chart"

\* one try/except block around a chart: subheader, the visualize_* call, then
\* st.plotly_chart, or the warning of the except clause
ChartBlock(chart, arg, next_pc) ==
    /\ calls' = calls \o <<Call(chart, arg, <<>>)>>
    /\ \E raises \in BOOLEAN :
         IF raises
         THEN /\ raised' = raised \cup {chart}
              /\ out' = out \o <<El("subheader", chart),
                                 El("warning", chart_warning(chart))>>
         ELSE /\ out' = out \o <<El("subheader", chart), El("plotly_chart", chart)>>
              /\ UNCHANGED raised
    /\ pc' = next_pc
    /\ UNCHANGED <<widgets, documents, source, analyze_button, n_neighbors,
                   n_rows, fit_raised>>

\* lines 171-177
VisualizeBarchart ==
    /\ pc = "barchart"
    /\ ChartBlock("barchart", barchart_limit(top_n_topics, n_rows), "hierarchy")

\* lines 179-185
VisualizeHierarchy ==
    /\ pc = "hierarchy"
    /\ ChartBlock("hierarchy", 0, "heatmap")

\* lines 187-193
VisualizeHeatmap ==
    /\ pc = "heatmap"
    /\ ChartBlock("heatmap", 0, "topics_chart")

\* lines 195-201
VisualizeTopics ==
    /\ pc = "topics_chart"
    /\ ChartBlock("topics", 0, "complete")

\* lines 202-209
VisualizeBarchartOnly ==
    /\ pc = "barchart_only"
    /\ ChartBlock("barchart", barchart_limit(top_n_topics, n_rows), "complete")

\* line 211
Complete ==
    /\ pc = "complete"
    /\ out' = out \o <<El("success", "complete")>>
    /\ pc' = "done"
    /\ UNCHANGED <<widgets, documents, source, analyze_button, n_neighbors,
                   n_rows, fit_raised, raised, calls>>

NextThroughFit == Tab1Block \/ Tab2Block \/ OfferAnalyze \/ PromptForInput
                    \/ ConfigureModel \/ FitTransform

Next == NextThroughFit \/ DisplayTopics \/ VisualizeBarchart \/ VisualizeHierarchy
          \/ VisualizeHeatmap \/ VisualizeTopics \/ VisualizeBarchartOnly
          \/ Complete

\* the whole script, document count and visualization controls varying
Spec == Init /\ [][Next]_vars

\* the script up to the fit, texts and tables varying
SpecInput == InitInput /\ [][NextThroughFit]_vars

\* the script up to the fit, document count and neighbour slider varying
SpecFit == InitFit /\ [][NextThroughFit]_vars

\* ================================================================ properties
Count(e) == Cardinality({i \in DOMAIN out : out[i] = e})
CountKind(k) == Cardinality({i \in DOMAIN out : out[i].kind = k})
CallsTo(fn) == {i \in DOMAIN calls : calls[i].fn = fn}
NDocs == Len(documents.items)
ChartNames == {"barchart", "hierarchy", "heatmap", "topics"}
Configured == pc \in {"fit", "topics", "stopped"}
PastInput == pc \notin {"tab1", "tab2"}

\* --- the normalizations, stated by position rather than by scanning
Newlines(text) == {i \in 1..Len(text) : text[i] = "\n"}
NthNewline(text, k) ==
    CHOOSE i \in Newlines(text) : Cardinality({j \in Newlines(text) : j <= i}) = k
LineAt(text, k) ==
    LET first == IF k = 1 THEN 1 ELSE NthNewline(text, k - 1) + 1
        last == IF k = Cardinality(Newlines(text)) + 1 THEN Len(text)
                ELSE NthNewline(text, k) - 1
    IN  SubSeq(text, first, last)
Trimmed(s) ==
    LET keep == {i \in 1..Len(s) : s[i] \notin Whitespace}
    IN  IF keep = {} THEN <<>>
        ELSE SubSeq(s, CHOOSE i \in keep : \A j \in keep : i <= j,
                       CHOOSE i \in keep : \A j \in keep : i >= j)
NonEmpty(s) == s # <<>>
ExpectedManual(text) ==
    SelectSeq([k \in 1..(Cardinality(Newlines(text)) + 1) |-> Trimmed(LineAt(text, k))],
              NonEmpty)

DigitChars == {"0", "1", "2", "3", "4", "5", "6", "7", "8", "9"}
DigitValue(ch) == CHOOSE d \in 0..9 : Digit(d) = ch
RECURSIVE DecimalValue(_)
DecimalValue(t) ==
    IF t = <<>> THEN 0
    ELSE 10 * DecimalValue(SubSeq(t, 1, Len(t) - 1)) + DigitValue(t[Len(t)])
DecimalText(n) ==
    CHOOSE t \in SeqsUpTo(DigitChars, 2) :
        /\ t # <<>>
        /\ (Len(t) > 1 => t[1] # "0")
        /\ DecimalValue(t) = n
TextOf(c) ==
    CASE c.kind = "str" -> c.text
      [] c.kind = "int" -> DecimalText(c.num)
      [] c.kind = "float" -> DecimalText(c.num) \o <<".", "0">>
NotMissing(c) == c.kind # "nan"
ExpectedCsv(df, name) ==
    LET values == IF name = "text" THEN df.text ELSE df.other
        present == SelectSeq(values, NotMissing)
    IN  SelectSeq([i \in DOMAIN present |-> Trimmed(TextOf(present[i]))], NonEmpty)

\* C1: once the fit-and-assign call has raised, the run has stopped right
\* after reporting it: exactly one error message, shown last; no topic summary
\* table; none of the four chart calls attempted; no warning; no completion
\* message.
C1_FitFailureHalts ==
    fit_raised =>
        /\ pc = "stopped"
        /\ CountKind("error") = 1
        /\ out[Len(out)].kind = "error"
        /\ Count(El("dataframe", "topic_info")) = 0
        /\ \A c \in ChartNames : CallsTo(c) = {}
        /\ CountKind("plotly_chart") = 0
        /\ CountKind("warning") = 0
        /\ Count(El("success", "complete")) = 0

C1_Witness ==
    /\ fit_raised
    /\ pc = "stopped"
    /\ Cardinality(CallsTo("fit_transform")) = 1
    /\ CountKind("error") = 1

\* C2: with show-all-visualizations on and a successful fit, every chart block
\* that has run left exactly its own trace: a chart whose call raised is not
\* rendered and has exactly one warning naming it, a chart whose call did not
\* raise is rendered once and has no warning; the summary table is rendered,
\* no error is shown, and a finished run has attempted all four charts.
C2_WarningNaming(c) ==
    CASE c = "barchart" -> "Could not generate topic frequency chart"
      [] c = "hierarchy" -> "Could not generate hierarchy chart"
      [] c = "heatmap" -> "Could not generate heatmap"
      [] c = "topics" -> "Could not generate topic words chart"

C2_ChartsFaultIsolated ==
    (show_all_viz /\ CallsTo("get_topic_info") # {}) =>
        /\ Count(El("dataframe", "topic_info")) = 1
        /\ CountKind("error") = 0
        /\ CountKind("warning") = Cardinality(raised)
        /\ \A c \in ChartNames :
             /\ Cardinality(CallsTo(c)) <= 1
             /\ c \in raised => CallsTo(c) # {}
             /\ (CallsTo(c) # {} /\ c \in raised) =>
                    /\ Count(El("plotly_chart", c)) = 0
                    /\ Count(El("warning", C2_WarningNaming(c))) = 1
             /\ (CallsTo(c) # {} /\ c \notin raised) =>
                    /\ Count(El("plotly_chart", c)) = 1
                    /\ Count(El("warning", C2_WarningNaming(c))) = 0
             /\ pc = "done" => CallsTo(c) # {}
        /\ pc = "done" => out[Len(out)] = El("success", "complete")

C2_Witness ==
    /\ show_all_viz
    /\ pc = "done"
    /\ raised = {"hierarchy"}
    /\ Count(El("plotly_chart", "barchart")) = 1
    /\ Count(El("plotly_chart", "heatmap")) = 1
    /\ Count(El("plotly_chart", "topics")) = 1
    /\ Count(El("warning", "Could not generate hierarchy chart")) = 1
    /\ CountKind("warning") = 1

\* C3: once the reduction configuration is built, its neighbor count n
\* satisfies 2 <= n <= max(2, documents - 2) when there are at least 4
\* documents, and n = 2 when there are at most 4.
C3_NeighborsWithinDocuments ==
    Configured =>
        /\ NDocs >= 4 =>
             /\ 2 <= n_neighbors
             /\ n_neighbors <= (IF NDocs - 2 > 2 THEN NDocs - 2 ELSE 2)
        /\ NDocs <= 4 => n_neighbors = 2

C3_Witness ==
    /\ pc = "fit"
    /\ NDocs = 10
    /\ n_neighbors_max = 15
    /\ n_neighbors = 8

\* C4: once the frequency chart block has run, in either branch of
\* show-all-visualizations, exactly one frequency chart call was made and its
\* topic limit is the smaller of top-n-topics and summary rows - 1.
C4_FrequencyLimit ==
    (CallsTo("get_topic_info") # {} /\ pc \notin {"barchart", "barchart_only"}) =>
        /\ Cardinality(CallsTo("barchart")) = 1
        /\ \A i \in CallsTo("barchart") :
             /\ calls[i].arg <= n_rows - 1
             /\ calls[i].arg <= top_n_topics
             /\ calls[i].arg \in {top_n_topics, n_rows - 1}

C4_Witness ==
    /\ ~show_all_viz
    /\ pc = "done"
    /\ n_rows = 12
    /\ top_n_topics = 20
    /\ \E i \in CallsTo("barchart") : calls[i].arg = 11

\* C5: the manual tab's block turns every non-empty text into the text's
\* lines in order, each trimmed, the ones empty after trimming removed,
\* duplicates kept; and the documents stay so for as long as the text area is
\* their source.
C5_ManualDocuments ==
    /\ (pc = "tab2" /\ user_input # <<>>) => source = "manual"
    /\ (PastInput /\ source = "manual") => user_input # <<>>
    /\ (pc # "tab1" /\ source = "manual") =>
          /\ ~documents.none
          /\ documents.items = ExpectedManual(user_input)

C5_Witness ==
    /\ pc = "analysis"
    /\ source = "manual"
    /\ Len(user_input) = 3
    /\ documents.items = << <<"a">>, <<"a">> >>

\* C6: after the upload tab's block with a column selected, the documents are
\* that column's values in row order with the missing ones dropped, each
\* turned into text and trimmed, the ones empty after trimming removed,
\* duplicates kept.
C6_CsvDocuments ==
    (PastInput /\ ~uploaded_file.none /\ column_name # "None") =>
        /\ source = "csv"
        /\ ~documents.none
        /\ documents.items = ExpectedCsv(uploaded_file, column_name)

C6_Witness ==
    /\ pc = "analysis"
    /\ column_name = "text"
    /\ uploaded_file.text = <<NaN, StrCell(<<" ", "b", " ">>)>>
    /\ documents.items = << <<"b">> >>

\* C7: the analyze button is offered only for a non-empty document list; a
\* run whose documents are empty or absent offers no button, makes no library
\* call, renders no summary table and no chart, and ends with exactly one
\* prompt: the informational one when no source was given, the warning when
\* a source gave no valid document.
C7_EmptyOrAbsent == documents.none \/ Len(documents.items) = 0

C7_GateOnDocuments ==
    /\ Count(El("button", "Start Analysis")) > 0 => ~C7_EmptyOrAbsent
    /\ (PastInput /\ pc # "analysis" /\ C7_EmptyOrAbsent) =>
         /\ pc = "done"
         /\ Count(El("button", "Start Analysis")) = 0
         /\ calls = <<>>
         /\ Count(El("dataframe", "topic_info")) = 0
         /\ CountKind("plotly_chart") = 0
         /\ CountKind("info") + CountKind("warning") = 1
         /\ IF source = "None"
            THEN Count(El("info", "get started")) = 1
            ELSE Count(El("warning", "no valid document")) = 1

C7_Witness ==
    /\ pc = "done"
    /\ source = "csv"
    /\ documents = ListOf(<<>>)
    /\ out[Len(out)] = El("warning", "no valid document")

\* C8 as stated: every reduction configuration built has
\* 2 <= neighbor count <= documents - 2.
C8_Original ==
    Configured => (2 <= n_neighbors /\ n_neighbors <= NDocs - 2)

\* C8 amended: every reduction configuration built has
\* 2 <= neighbor count <= max(2, documents - 2).
C8_NeighborsClamped ==
    Configured => (2 <= n_neighbors /\ n_neighbors <= Max2(2, NDocs - 2))

C8_Witness ==
    /\ pc = "fit"
    /\ NDocs = 3
    /\ n_neighbors = 2

\* C9 as stated: with both a manual text and an upload with a selected
\* column, the documents that gate the analysis and reach the fit are those
\* of the tab the user has selected.
C9_SelectedTabDecides ==
    (PastInput /\ user_input # <<>> /\ ~uploaded_file.none /\ column_name # "None") =>
        LET chosen == IF active_tab = "manual"
                      THEN ExpectedManual(user_input)
                      ELSE ExpectedCsv(uploaded_file, column_name)
        IN  /\ documents.items = chosen
            /\ \A i \in CallsTo("fit_transform") : calls[i].docs = chosen

\* C10: the neighbor count of a built reduction configuration lies between 2
\* and the slider's value, hence in 2..15, and equals the slider's value when
\* documents - 2 is at least that value.
C10_NeighborsWithinSlider ==
    Configured =>
        /\ 2 <= n_neighbors
        /\ n_neighbors <= n_neighbors_max
        /\ n_neighbors <= 15
        /\ NDocs - 2 >= n_neighbors_max => n_neighbors = n_neighbors_max

C10_Witness ==
    /\ pc = "fit"
    /\ NDocs = 17
    /\ n_neighbors_max = 15
    /\ n_neighbors = 15
====
